---------------------------- MODULE Spec2Model ----------------------------
(***************************************************************************)
(* A model of the mini database engine of src/database_engine.cpp: the     *)
(* fixed-size Record, the Page, the JournalManager, the BufferPool with    *)
(* its LRU clock, the BPlusTreeIndex and the StorageEngine that binds      *)
(* them to the paged data file.                                            *)
(*                                                                         *)
(* Strings are sequences of byte values 1..255; 0 is the NUL byte.  The    *)
(* char arrays of Record and JournalEntry are sequences of bytes of the    *)
(* array's length.  Positions in vectors are 0-based as in the source; the *)
(* sequence that holds a vector is indexed from 1, so element i of the     *)
(* source is element i + 1 of the model.                                   *)
(***************************************************************************)
EXTENDS Integers, Sequences, FiniteSets, TLC

(***************************************************************************)
(* Config (src/database_engine.cpp:42-60), scaled down.  The source has    *)
(* BTREE_ORDER = 64, CACHE_SIZE = 100, MAX_KEY_SIZE = 256 and              *)
(* MAX_VALUE_SIZE = 1024.                                                  *)
(***************************************************************************)
BTREE_ORDER == 3
CACHE_SIZE == 2
MAX_KEY_SIZE == 3
MAX_VALUE_SIZE == 3

(***************************************************************************)
(* Bounds of the exploration.  MaxClock caps BufferPool::current_time over  *)
(* the sessions of a run taken together, MaxPageId caps                    *)
(* StorageEngine::next_page_id.                                            *)
(***************************************************************************)
MaxClock == 3
MaxPageId == 3

Min(S) == CHOOSE x \in S : \A y \in S : x <= y
Max(S) == CHOOSE x \in S : \A y \in S : x >= y

(***************************************************************************)
(* A local variable: F of the value of x, with x evaluated once.           *)
(***************************************************************************)
With(x, F(_)) == CHOOSE r \in {F(v) : v \in {x}} : TRUE

(***************************************************************************)
(* std::string comparison: lexicographic on bytes, a proper prefix first.  *)
(***************************************************************************)
StrLess(a, b) ==
    \E i \in 1..(Min({Len(a), Len(b)}) + 1) :
        /\ \A j \in 1..(i - 1) : a[j] = b[j]
        /\ \/ i > Len(a) /\ i <= Len(b)
           \/ i <= Len(a) /\ i <= Len(b) /\ a[i] < b[i]

(***************************************************************************)
(* strncpy(dst, src, n): the first n bytes of src, NUL-padded to n bytes.  *)
(* Nothing is written past dst[n - 1].                                     *)
(***************************************************************************)
StrnCpy(src, n) == [i \in 1..n |-> IF i <= Len(src) THEN src[i] ELSE 0]

(***************************************************************************)
(* An uninitialized byte is NUL or some other byte.                        *)
(***************************************************************************)
Garbage == 90
Indet == {0, Garbage}

\* ------------------------------------------------------------------ Record

\* Record::Record(): all bytes zero.
EmptyRecord ==
    [key |-> [i \in 1..MAX_KEY_SIZE |-> 0],
     value |-> [i \in 1..MAX_VALUE_SIZE |-> 0],
     page_id |-> 0, is_deleted |-> FALSE]

\* Record::Record(k, v, pid): the arrays are not zeroed first, so the last
\* byte of each (uk, uv) keeps whatever the stack held.
NewRecord(k, v, pid, uk, uv) ==
    [key |-> StrnCpy(k, MAX_KEY_SIZE - 1) \o <<uk>>,
     value |-> StrnCpy(v, MAX_VALUE_SIZE - 1) \o <<uv>>,
     page_id |-> pid, is_deleted |-> FALSE]

\* The bytes of a uint64_t page id, least significant first, for ids < 256.
PageIdBytes(pid) == <<pid, 0>>

\* The bytes of a Record in memory from its key on: key, value, page_id.
RecordBytes(rec) == rec.key \o rec.value \o PageIdBytes(rec.page_id)

\* std::string(const char*): the bytes from position from up to the first NUL.
CString(bytes, from) ==
    LET nul == Min({i \in from..Len(bytes) : bytes[i] = 0})
    IN  SubSeq(bytes, from, nul - 1)

get_key(rec) == CString(RecordBytes(rec), 1)
get_value(rec) == CString(RecordBytes(rec), MAX_KEY_SIZE + 1)

\* -------------------------------------------------------------------- Page

\* Page::Page(id): zeroed data, clean.
NewPage(id) == [page_id |-> id, data |-> EmptyRecord, is_dirty |-> FALSE]

write_record(page, rec) == [page EXCEPT !.data = rec, !.is_dirty = TRUE]

read_record(page) == page.data


\* ----------------------------------------------------------- BPlusTreeIndex
(***************************************************************************)
(* The nodes of the tree live in a heap: nodes[n] is the BPlusNode that    *)
(* the n-th std::make_shared<BPlusNode> created, and a shared_ptr to a     *)
(* node is its number, 0 for nullptr.  An index is the record              *)
(* [nodes, root, order, ub]; ub is set once an operation has indexed a      *)
(* children vector out of range (undefined behaviour).                     *)
(***************************************************************************)

\* BPlusNode::BPlusNode(leaf)
NewNode(leaf) ==
    [is_leaf |-> leaf, keys |-> <<>>, values |-> <<>>, children |-> <<>>,
     next |-> 0]

(***************************************************************************)
(* std::lower_bound over keys[first .. first + len), as the library        *)
(* computes it (halving the length).  On a sorted vector this is the       *)
(* number of keys less than key; on an unsorted one it is what the binary  *)
(* search happens to reach.                                                *)
(***************************************************************************)
RECURSIVE LowerBound(_, _, _, _)
LowerBound(keys, key, first, len) ==
    IF len <= 0
    THEN first
    ELSE LET half == len \div 2
             middle == first + half
         IN  IF StrLess(keys[middle + 1], key)
             THEN LowerBound(keys, key, middle + 1, len - half - 1)
             ELSE LowerBound(keys, key, first, half)

\* BPlusNode::find_position
find_position(node, key) == LowerBound(node.keys, key, 0, Len(node.keys))

(***************************************************************************)
(* The child an internal node sends key to (the same three lines in        *)
(* insert_internal, search and remove).  For a node without keys the       *)
(* source computes keys.size() - 1 in size_t, which wraps; -1 stands for   *)
(* that out-of-range index.                                                *)
(***************************************************************************)
child_position(node, key) ==
    LET pos == find_position(node, key)
    IN  IF pos = Len(node.keys)
        THEN Len(node.keys) - 1
        ELSE IF pos > 0 /\ StrLess(key, node.keys[pos + 1])
             THEN pos - 1
             ELSE pos

\* Whether children[pos] is an element of the node's children vector.
ValidChild(node, pos) == pos >= 0 /\ pos < Len(node.children)

\* std::vector::insert(begin() + pos, x)
VecInsert(vec, pos, x) ==
    SubSeq(vec, 1, pos) \o <<x>> \o SubSeq(vec, pos + 1, Len(vec))

\* std::vector::resize(n) of a vector of shared_ptr: cut, or grown by nullptr.
VecResize(vec, n) ==
    [i \in 1..n |-> IF i <= Len(vec) THEN vec[i] ELSE 0]

(***************************************************************************)
(* A split that does not point the old leaf at the new one (a variant of   *)
(* BPlusTreeIndex::split_node, not the source's).                          *)
(***************************************************************************)
split_node_unlinked(nodes, n) ==
    LET node == nodes[n]
        mid == Len(node.keys) \div 2
        new_leaf ==
            [NewNode(TRUE) EXCEPT
                !.keys = SubSeq(node.keys, mid + 1, Len(node.keys)),
                !.values = SubSeq(node.values, mid + 1, Len(node.values)),
                !.next = node.next]
        old_leaf ==
            [node EXCEPT
                !.keys = SubSeq(node.keys, 1, mid),
                !.values = SubSeq(node.values, 1, mid)]
        new_internal ==
            [NewNode(FALSE) EXCEPT
                !.keys = SubSeq(node.keys, mid + 2, Len(node.keys)),
                !.children = SubSeq(node.children, mid + 2, Len(node.children))]
        old_internal ==
            [node EXCEPT
                !.keys = SubSeq(node.keys, 1, mid),
                !.children = VecResize(node.children, mid + 1)]
    IN  IF node.is_leaf
        THEN Append([nodes EXCEPT ![n] = old_leaf], new_leaf)
        ELSE Append([nodes EXCEPT ![n] = old_internal], new_internal)

(***************************************************************************)
(* BPlusTreeIndex::split_node: the heap after the split of node n.  The    *)
(* new node is the last of the heap.                                       *)
(***************************************************************************)
split_node(nodes, n) ==
    LET node == nodes[n]
        mid == Len(node.keys) \div 2
        new_id == Len(nodes) + 1
        new_leaf ==
            [NewNode(TRUE) EXCEPT
                !.keys = SubSeq(node.keys, mid + 1, Len(node.keys)),
                !.values = SubSeq(node.values, mid + 1, Len(node.values)),
                !.next = node.next]
        old_leaf ==
            [node EXCEPT
                !.next = new_id,
                !.keys = SubSeq(node.keys, 1, mid),
                !.values = SubSeq(node.values, 1, mid)]
        new_internal ==
            [NewNode(FALSE) EXCEPT
                !.keys = SubSeq(node.keys, mid + 2, Len(node.keys)),
                !.children = SubSeq(node.children, mid + 2, Len(node.children))]
        old_internal ==
            [node EXCEPT
                !.keys = SubSeq(node.keys, 1, mid),
                !.children = VecResize(node.children, mid + 1)]
    IN  IF node.is_leaf
        THEN Append([nodes EXCEPT ![n] = old_leaf], new_leaf)
        ELSE Append([nodes EXCEPT ![n] = old_internal], new_internal)

(***************************************************************************)
(* An insert_internal that splits a leaf only once it holds more keys than *)
(* the order (a variant of BPlusTreeIndex::insert_internal, not the        *)
(* source's).                                                              *)
(***************************************************************************)
RECURSIVE insert_internal_late(_, _, _, _, _)
insert_internal_late(nodes, order, n, key, value) ==
    LET NoSplit(h) == [nodes |-> h, new |-> 0, key |-> <<>>, ub |-> FALSE]
    IN  With(nodes[n], LAMBDA node :
        IF node.is_leaf
        THEN With(find_position(node, key), LAMBDA pos :
                 IF pos < Len(node.keys) /\ node.keys[pos + 1] = key
                 THEN NoSplit([nodes EXCEPT ![n].values[pos + 1] = value])
                 ELSE
             With([nodes EXCEPT
                      ![n].keys = VecInsert(node.keys, pos, key),
                      ![n].values = VecInsert(node.values, pos, value)],
                  LAMBDA grown :
                 IF Len(grown[n].keys) > order
                 THEN With(split_node(grown, n), LAMBDA split :
                          [nodes |-> split, new |-> Len(split),
                           key |-> split[Len(split)].keys[1], ub |-> FALSE])
                 ELSE NoSplit(grown)))
        ELSE With(child_position(node, key), LAMBDA pos :
                 IF ~ValidChild(node, pos)
                 THEN [nodes |-> nodes, new |-> 0, key |-> <<>>, ub |-> TRUE]
                 ELSE
             With(insert_internal_late(nodes, order, node.children[pos + 1],
                                  key, value),
                  LAMBDA result :
                 IF result.ub
                 THEN result
                 ELSE IF result.new = 0
                 THEN NoSplit(result.nodes)
                 ELSE
             With([result.nodes EXCEPT
                      ![n].keys =
                          VecInsert(result.nodes[n].keys, pos + 1, result.key),
                      ![n].children =
                          VecInsert(result.nodes[n].children, pos + 1, result.new)],
                  LAMBDA grown :
                 IF Len(grown[n].keys) < order
                 THEN NoSplit(grown)
                 ELSE
             With(split_node(grown, n), LAMBDA split :
                 \* mid_key = node->keys.back(); pop_back(): taken after
                 \* split_node has cut the node's keys to mid.
                 IF Len(split[n].keys) = 0
                 THEN [nodes |-> split, new |-> Len(split), key |-> <<>>,
                       ub |-> TRUE]
                 ELSE [nodes |->
                           [split EXCEPT ![n].keys =
                               SubSeq(split[n].keys, 1, Len(split[n].keys) - 1)],
                       new |-> Len(split),
                       key |-> split[n].keys[Len(split[n].keys)],
                       ub |-> FALSE])))))

(***************************************************************************)
(* BPlusTreeIndex::insert_internal on node n.  The result is               *)
(* [nodes, new, key, ub]: the heap afterwards, the new sibling (0 for      *)
(* nullptr) with the key promoted to the parent, and ub, set when the      *)
(* descent indexes children out of range.                                  *)
(***************************************************************************)
RECURSIVE insert_internal(_, _, _, _, _)
insert_internal(nodes, order, n, key, value) ==
    LET NoSplit(h) == [nodes |-> h, new |-> 0, key |-> <<>>, ub |-> FALSE]
    IN  With(nodes[n], LAMBDA node :
        IF node.is_leaf
        THEN With(find_position(node, key), LAMBDA pos :
                 IF pos < Len(node.keys) /\ node.keys[pos + 1] = key
                 THEN NoSplit([nodes EXCEPT ![n].values[pos + 1] = value])
                 ELSE
             With([nodes EXCEPT
                      ![n].keys = VecInsert(node.keys, pos, key),
                      ![n].values = VecInsert(node.values, pos, value)],
                  LAMBDA grown :
                 IF Len(grown[n].keys) >= order
                 THEN With(split_node(grown, n), LAMBDA split :
                          [nodes |-> split, new |-> Len(split),
                           key |-> split[Len(split)].keys[1], ub |-> FALSE])
                 ELSE NoSplit(grown)))
        ELSE With(child_position(node, key), LAMBDA pos :
                 IF ~ValidChild(node, pos)
                 THEN [nodes |-> nodes, new |-> 0, key |-> <<>>, ub |-> TRUE]
                 ELSE
             With(insert_internal(nodes, order, node.children[pos + 1],
                                  key, value),
                  LAMBDA result :
                 IF result.ub
                 THEN result
                 ELSE IF result.new = 0
                 THEN NoSplit(result.nodes)
                 ELSE
             With([result.nodes EXCEPT
                      ![n].keys =
                          VecInsert(result.nodes[n].keys, pos + 1, result.key),
                      ![n].children =
                          VecInsert(result.nodes[n].children, pos + 1, result.new)],
                  LAMBDA grown :
                 IF Len(grown[n].keys) < order
                 THEN NoSplit(grown)
                 ELSE
             With(split_node(grown, n), LAMBDA split :
                 \* mid_key = node->keys.back(); pop_back(): taken after
                 \* split_node has cut the node's keys to mid.
                 IF Len(split[n].keys) = 0
                 THEN [nodes |-> split, new |-> Len(split), key |-> <<>>,
                       ub |-> TRUE]
                 ELSE [nodes |->
                           [split EXCEPT ![n].keys =
                               SubSeq(split[n].keys, 1, Len(split[n].keys) - 1)],
                       new |-> Len(split),
                       key |-> split[n].keys[Len(split[n].keys)],
                       ub |-> FALSE])))))

\* BPlusTreeIndex::BPlusTreeIndex(tree_order): a single empty leaf as root.
NewIndex(tree_order) ==
    [nodes |-> <<NewNode(TRUE)>>, root |-> 1, order |-> tree_order, ub |-> FALSE]

\* An insert whose new root takes the old root's first child, not the old
\* root, as its left child once the old root is an internal node (a variant
\* of BPlusTreeIndex::insert, not the source's).
index_insert_lopsided(index, key, page_id) ==
    With(insert_internal(index.nodes, index.order, index.root, key, page_id),
         LAMBDA result :
        IF result.ub
        THEN [index EXCEPT !.ub = TRUE]
        ELSE IF result.new # 0
        THEN [index EXCEPT
                 !.nodes = Append(result.nodes,
                                  [NewNode(FALSE) EXCEPT
                                      !.keys = <<result.key>>,
                                      !.children =
                                          <<IF result.nodes[index.root].is_leaf
                                            THEN index.root
                                            ELSE result.nodes[index.root].children[1],
                                            result.new>>]),
                 !.root = Len(result.nodes) + 1]
        ELSE [index EXCEPT !.nodes = result.nodes])

\* BPlusTreeIndex::insert: grows a new root when the old root split.
index_insert(index, key, page_id) ==
    With(insert_internal(index.nodes, index.order, index.root, key, page_id),
         LAMBDA result :
        IF result.ub
        THEN [index EXCEPT !.ub = TRUE]
        ELSE IF result.new # 0
        THEN [index EXCEPT
                 !.nodes = Append(result.nodes,
                                  [NewNode(FALSE) EXCEPT
                                      !.keys = <<result.key>>,
                                      !.children = <<index.root, result.new>>]),
                 !.root = Len(result.nodes) + 1]
        ELSE [index EXCEPT !.nodes = result.nodes])

\* The descent of search and remove: the leaf key is sent to from node n,
\* or -1 when the descent indexes children out of range.
RECURSIVE find_leaf(_, _, _)
find_leaf(nodes, n, key) ==
    IF nodes[n].is_leaf
    THEN n
    ELSE LET pos == child_position(nodes[n], key)
         IN  IF ValidChild(nodes[n], pos)
             THEN find_leaf(nodes, nodes[n].children[pos + 1], key)
             ELSE -1

\* BPlusTreeIndex::search: the page id, 0 for not found; -1 stands for the
\* undefined result of an out-of-range descent.
index_search(index, key) ==
    LET leaf == find_leaf(index.nodes, index.root, key)
    IN  IF leaf = -1
        THEN -1
        ELSE LET node == index.nodes[leaf]
                 pos == find_position(node, key)
             IN  IF pos < Len(node.keys) /\ node.keys[pos + 1] = key
                 THEN node.values[pos + 1]
                 ELSE 0

\* A remove that takes the key and its value out of the leaf (a variant of
\* BPlusTreeIndex::remove, not the source's).
index_remove_erase(index, key) ==
    LET leaf == find_leaf(index.nodes, index.root, key)
    IN  IF leaf = -1
        THEN [index EXCEPT !.ub = TRUE]
        ELSE LET node == index.nodes[leaf]
                 pos == find_position(node, key)
             IN  IF pos < Len(node.keys) /\ node.keys[pos + 1] = key
                 THEN [index EXCEPT
                          !.nodes[leaf].keys =
                              SubSeq(node.keys, 1, pos)
                                  \o SubSeq(node.keys, pos + 2, Len(node.keys)),
                          !.nodes[leaf].values =
                              SubSeq(node.values, 1, pos)
                                  \o SubSeq(node.values, pos + 2, Len(node.values))]
                 ELSE index

\* BPlusTreeIndex::remove: the tombstone.
index_remove(index, key) ==
    LET leaf == find_leaf(index.nodes, index.root, key)
    IN  IF leaf = -1
        THEN [index EXCEPT !.ub = TRUE]
        ELSE LET node == index.nodes[leaf]
                 pos == find_position(node, key)
             IN  IF pos < Len(node.keys) /\ node.keys[pos + 1] = key
                 THEN [index EXCEPT !.nodes[leaf].values[pos + 1] = 0]
                 ELSE index

\* BPlusTreeIndex::get_all_keys: the keys along the leaf chain from the
\* leftmost leaf.  fuel bounds the walk (a chain with a cycle never ends).
RECURSIVE leftmost_leaf(_, _)
leftmost_leaf(nodes, n) ==
    IF ~nodes[n].is_leaf /\ Len(nodes[n].children) > 0
    THEN leftmost_leaf(nodes, nodes[n].children[1])
    ELSE n

RECURSIVE chain_keys(_, _, _)
chain_keys(nodes, n, fuel) ==
    IF n = 0 \/ fuel = 0
    THEN <<>>
    ELSE nodes[n].keys \o chain_keys(nodes, nodes[n].next, fuel - 1)

get_all_keys(index) ==
    chain_keys(index.nodes, leftmost_leaf(index.nodes, index.root),
               Len(index.nodes))


\* ------------------------------------------------------------ StorageEngine
(***************************************************************************)
(* The engine is the record                                                *)
(*   index         BPlusTreeIndex index                                    *)
(*   cache         BufferPool::cache, page id -> [page, access_time]; the  *)
(*                 page of an entry is the Page object the shared_ptr      *)
(*                 points to                                               *)
(*   current_time  BufferPool::current_time                                *)
(*   next_page_id  StorageEngine::next_page_id                             *)
(*   data_ok       the state of the data_file stream: FALSE once failbit   *)
(*                 is set, after which every seek, read and write on the   *)
(*                 stream does nothing                                     *)
(*   file          the blocks of database.dat: file[p + 1] is the Record   *)
(*                 image at offset p * PAGE_SIZE (all writes are whole     *)
(*                 pages at page offsets, so the size is Len(file) pages)  *)
(*   journal       the entries of journal.log                              *)
(*   trace         the calls that reached the two files during the         *)
(*                 operation in progress, each with the files as they      *)
(*                 were after it (a history, not a field of the source)    *)
(***************************************************************************)

\* One step of trace.
Event(e, what) == [ev |-> what, journal |-> e.journal, file |-> e.file]

\* JournalManager::JournalEntry as log_operation fills it: zeroed, then
\* strncpy of key and value.
NewJournalEntry(op, key, value, page_id) ==
    [op |-> op,
     key |-> StrnCpy(key, MAX_KEY_SIZE - 1) \o <<0>>,
     value |-> StrnCpy(value, MAX_VALUE_SIZE - 1) \o <<0>>,
     page_id |-> page_id]

\* JournalManager::log_operation: append one entry and flush.
log_operation(e, op, key, value, page_id) ==
    LET after ==
            [e EXCEPT !.journal =
                Append(e.journal, NewJournalEntry(op, key, value, page_id))]
    IN  [after EXCEPT !.trace = Append(e.trace, Event(after, op))]

\* A commit that writes no entry (a variant of JournalManager::commit, not
\* the source's).
commit_nothing(e) == e

\* JournalManager::commit
commit(e) == log_operation(e, "COMMIT", <<>>, <<>>, 0)

\* JournalManager::truncate: the file is deleted and created empty.
truncate(e) ==
    LET after == [e EXCEPT !.journal = <<>>]
    IN  [after EXCEPT !.trace = Append(e.trace, Event(after, "TRUNCATE"))]

\* An eviction of the entry with the least page id, whatever its access_time
\* (a variant of BufferPool::evict_lru, not the source's).
evict_first(cache) ==
    IF DOMAIN cache = {}
    THEN cache
    ELSE [q \in DOMAIN cache \ {Min(DOMAIN cache)} |-> cache[q]]

\* BufferPool::evict_lru: the entry with the least access_time goes, the
\* first such in page-id order (std::map iterates by key).
evict_lru(cache) ==
    IF DOMAIN cache = {}
    THEN cache
    ELSE LET oldest ==
                 CHOOSE p \in DOMAIN cache :
                     \A q \in DOMAIN cache :
                         \/ cache[p].access_time < cache[q].access_time
                         \/ /\ cache[p].access_time = cache[q].access_time
                            /\ p <= q
         IN  [q \in DOMAIN cache \ {oldest} |-> cache[q]]

\* A put that never evicts (a variant of BufferPool::put, not the source's).
pool_put_no_evict(e, page_id, page) ==
    LET entry == [page |-> page, access_time |-> e.current_time + 1]
    IN  [e EXCEPT
            !.cache = [q \in DOMAIN e.cache \cup {page_id} |->
                          IF q = page_id THEN entry ELSE e.cache[q]],
            !.current_time = e.current_time + 1]

\* BufferPool::put
pool_put(e, page_id, page) ==
    LET room == IF Cardinality(DOMAIN e.cache) >= CACHE_SIZE
                THEN evict_lru(e.cache)
                ELSE e.cache
        entry == [page |-> page, access_time |-> e.current_time + 1]
    IN  [e EXCEPT
            !.cache = [q \in DOMAIN room \cup {page_id} |->
                          IF q = page_id THEN entry ELSE room[q]],
            !.current_time = e.current_time + 1]

\* BufferPool::get on a hit: the access time is bumped.  (A miss returns
\* nullptr and changes nothing.)
pool_get(e, page_id) ==
    [e EXCEPT !.cache[page_id].access_time = e.current_time + 1,
              !.current_time = e.current_time + 1]

\* BufferPool::get: a hit bumps the access time, a miss returns nullptr and
\* leaves the pool as it is.
BufferPool_get(e, page_id) ==
    IF page_id \in DOMAIN e.cache THEN pool_get(e, page_id) ELSE e

\* BufferPool::get_dirty_pages, as page ids.
get_dirty_pages(cache) == {p \in DOMAIN cache : cache[p].page.is_dirty}

\* fstream::read of one page at offset page_id * PAGE_SIZE into a zeroed
\* buffer: [ok, data].  Reading at or past the end of the file reads
\* nothing and sets failbit; so does any read on a failed stream.
file_read(e, page_id, buffer) ==
    IF e.data_ok /\ page_id + 1 <= Len(e.file)
    THEN [ok |-> TRUE, data |-> e.file[page_id + 1]]
    ELSE [ok |-> FALSE, data |-> buffer]

\* StorageEngine::load_page: afterwards the page is cache[page_id].page.
load_page(e, page_id) ==
    IF page_id \in DOMAIN e.cache
    THEN pool_get(e, page_id)
    ELSE LET got == file_read(e, page_id, EmptyRecord)
             page == [NewPage(page_id) EXCEPT !.data = got.data]
         IN  pool_put([e EXCEPT !.data_ok = got.ok], page_id, page)

\* fstream::seekp + write of one page: blocks between the old end of the
\* file and the page read as zeros.
file_write(file, page_id, data) ==
    [i \in 1..Max({Len(file), page_id + 1}) |->
        IF i = page_id + 1 THEN data
        ELSE IF i <= Len(file) THEN file[i] ELSE EmptyRecord]

\* StorageEngine::flush_page of the cached page page_id.  On a failed
\* stream nothing is written; the dirty flag is cleared all the same.
flush_page(e, page_id) ==
    LET page == e.cache[page_id].page
        written ==
            IF e.data_ok
            THEN [e EXCEPT !.file = file_write(e.file, page.page_id, page.data)]
            ELSE e
    IN  [written EXCEPT
            !.cache[page_id].page.is_dirty = FALSE,
            !.trace = Append(e.trace, Event(written, "WRITE"))]

\* A constructor that starts the page ids at 1 whatever the size of the file
\* (a variant of StorageEngine::StorageEngine, not the source's).
engine_open_from_one(file, journal) ==
    [index |-> NewIndex(BTREE_ORDER),
     cache |-> <<>>,
     current_time |-> 0,
     next_page_id |-> 1,
     data_ok |-> TRUE,
     file |-> file,
     journal |-> journal,
     trace |-> <<>>]

\* StorageEngine::StorageEngine over the files as they are on disk.
engine_open(file, journal) ==
    [index |-> NewIndex(BTREE_ORDER),
     cache |-> <<>>,
     current_time |-> 0,
     next_page_id |-> Len(file) + 1,
     data_ok |-> TRUE,
     file |-> file,
     journal |-> journal,
     trace |-> <<>>]

\* The result of an operation: the engine afterwards and the value returned.
Result(e, ret) == [engine |-> e, ret |-> ret]

\* The value returned by get and linear_search.
NotFound == <<FALSE, <<>>>>
Found(value) == <<TRUE, value>>

\* An operation that indexed a children vector out of range.
Undefined(e) == Result([e EXCEPT !.index.ub = TRUE], "undefined")

\* An insert that writes the page before it logs the operation (a variant of
\* StorageEngine::insert, not the source's).
engine_insert_write_first(e0, key, value, uk, uv) ==
    With([e0 EXCEPT !.trace = <<>>], LAMBDA e :
    With(index_search(e.index, key), LAMBDA found :
        IF found # 0
        THEN Result(e, FALSE)
        ELSE
    With(pool_put([e EXCEPT !.next_page_id = e.next_page_id + 1],
                  e.next_page_id,
                  write_record(NewPage(e.next_page_id),
                               NewRecord(key, value, e.next_page_id, uk, uv))),
         LAMBDA cached :
    With(flush_page(cached, e.next_page_id), LAMBDA flushed :
    With(log_operation(flushed, "INSERT", key, value, 0), LAMBDA logged :
    With(index_insert(logged.index, key, e.next_page_id), LAMBDA grown :
        Result(commit([logged EXCEPT
                          !.index = grown,
                          !.trace = Append(logged.trace, Event(logged, "INDEX"))]),
               TRUE)))))))

\* An insert that leaves next_page_id as it is (a variant of
\* StorageEngine::insert, not the source's).
engine_insert_same_page(e0, key, value, uk, uv) ==
    With([e0 EXCEPT !.trace = <<>>], LAMBDA e :
    With(index_search(e.index, key), LAMBDA found :
        IF found = -1
        THEN Undefined(e)
        ELSE IF found # 0
        THEN Result(e, FALSE)
        ELSE
    With(log_operation(e, "INSERT", key, value, 0), LAMBDA logged :
    With(pool_put(logged,
                  e.next_page_id,
                  write_record(NewPage(e.next_page_id),
                               NewRecord(key, value, e.next_page_id, uk, uv))),
         LAMBDA cached :
    With(flush_page(cached, e.next_page_id), LAMBDA flushed :
    With(index_insert(flushed.index, key, e.next_page_id), LAMBDA grown :
    With([flushed EXCEPT
             !.index = grown,
             !.trace = Append(flushed.trace, Event(flushed, "INDEX"))],
         LAMBDA indexed :
        IF grown.ub
        THEN Undefined(indexed)
        ELSE Result(commit(indexed), TRUE))))))))

\* An insert that does not ask the index first (a variant of
\* StorageEngine::insert, not the source's).
engine_insert_unchecked(e0, key, value, uk, uv) ==
    With([e0 EXCEPT !.trace = <<>>], LAMBDA e :
    With(log_operation(e, "INSERT", key, value, 0), LAMBDA logged :
    With(pool_put([logged EXCEPT !.next_page_id = e.next_page_id + 1],
                  e.next_page_id,
                  write_record(NewPage(e.next_page_id),
                               NewRecord(key, value, e.next_page_id, uk, uv))),
         LAMBDA cached :
    With(flush_page(cached, e.next_page_id), LAMBDA flushed :
    With(index_insert(flushed.index, key, e.next_page_id), LAMBDA grown :
    With([flushed EXCEPT
             !.index = grown,
             !.trace = Append(flushed.trace, Event(flushed, "INDEX"))],
         LAMBDA indexed :
        IF grown.ub
        THEN Undefined(indexed)
        ELSE Result(commit(indexed), TRUE)))))))

\* StorageEngine::insert.  uk and uv are the uninitialized last bytes of the
\* Record's arrays.
engine_insert(e0, key, value, uk, uv) ==
    With([e0 EXCEPT !.trace = <<>>], LAMBDA e :
    With(index_search(e.index, key), LAMBDA found :
        IF found = -1
        THEN Undefined(e)
        ELSE IF found # 0
        THEN Result(e, FALSE)
        ELSE
    With(log_operation(e, "INSERT", key, value, 0), LAMBDA logged :
    \* allocate_page, Record(key, value, page_id), write_record, put
    With(pool_put([logged EXCEPT !.next_page_id = e.next_page_id + 1],
                  e.next_page_id,
                  write_record(NewPage(e.next_page_id),
                               NewRecord(key, value, e.next_page_id, uk, uv))),
         LAMBDA cached :
    With(flush_page(cached, e.next_page_id), LAMBDA flushed :
    With(index_insert(flushed.index, key, e.next_page_id), LAMBDA grown :
    With([flushed EXCEPT
             !.index = grown,
             !.trace = Append(flushed.trace, Event(flushed, "INDEX"))],
         LAMBDA indexed :
        IF grown.ub
        THEN Undefined(indexed)
        ELSE Result(commit(indexed), TRUE))))))))

\* StorageEngine::get
engine_get(e0, key) ==
    With([e0 EXCEPT !.trace = <<>>], LAMBDA e :
    With(index_search(e.index, key), LAMBDA page_id :
        IF page_id = -1
        THEN Undefined(e)
        ELSE IF page_id = 0
        THEN Result(e, NotFound)
        ELSE
    With(load_page(e, page_id), LAMBDA loaded :
    With(read_record(loaded.cache[page_id].page), LAMBDA rec :
        IF rec.is_deleted
        THEN Result(loaded, NotFound)
        ELSE Result(loaded, Found(get_value(rec)))))))

\* StorageEngine::update
engine_update(e0, key, new_value) ==
    With([e0 EXCEPT !.trace = <<>>], LAMBDA e :
    With(index_search(e.index, key), LAMBDA page_id :
        IF page_id = -1
        THEN Undefined(e)
        ELSE IF page_id = 0
        THEN Result(e, FALSE)
        ELSE
    With(log_operation(e, "UPDATE", key, new_value, page_id), LAMBDA logged :
    With(load_page(logged, page_id), LAMBDA loaded :
    With(read_record(loaded.cache[page_id].page), LAMBDA rec :
        IF rec.is_deleted
        THEN Result(loaded, FALSE)
        ELSE
    \* strncpy(rec.value, new_value, MAX_VALUE_SIZE - 1), write_record
    With([loaded EXCEPT
             !.cache[page_id].page =
                 write_record(loaded.cache[page_id].page,
                     [rec EXCEPT !.value =
                         StrnCpy(new_value, MAX_VALUE_SIZE - 1)
                             \o <<rec.value[MAX_VALUE_SIZE]>>])],
         LAMBDA written :
    With(flush_page(written, page_id), LAMBDA flushed :
        Result(commit(flushed), TRUE))))))))

\* StorageEngine::remove
engine_remove(e0, key) ==
    With([e0 EXCEPT !.trace = <<>>], LAMBDA e :
    With(index_search(e.index, key), LAMBDA page_id :
        IF page_id = -1
        THEN Undefined(e)
        ELSE IF page_id = 0
        THEN Result(e, FALSE)
        ELSE
    With(log_operation(e, "DELETE", key, <<>>, page_id), LAMBDA logged :
    With(load_page(logged, page_id), LAMBDA loaded :
    With([loaded EXCEPT
             !.cache[page_id].page =
                 write_record(loaded.cache[page_id].page,
                     [read_record(loaded.cache[page_id].page)
                         EXCEPT !.is_deleted = TRUE])],
         LAMBDA written :
    With(flush_page(written, page_id), LAMBDA flushed :
    With([flushed EXCEPT
             !.index = index_remove(flushed.index, key),
             !.trace = Append(flushed.trace, Event(flushed, "INDEX"))],
         LAMBDA unindexed :
        Result(commit(unindexed), TRUE))))))))

\* StorageEngine::flush_all: the dirty pages in page-id order, then the
\* journal is truncated.
RECURSIVE flush_pages(_, _)
flush_pages(e, pages) ==
    IF pages = {}
    THEN e
    ELSE LET p == Min(pages)
         IN  flush_pages(flush_page(e, p), pages \ {p})

\* A checkpoint that leaves the journal as it is (a variant of
\* StorageEngine::flush_all, not the source's).
flush_all_keep_journal(e) == flush_pages(e, get_dirty_pages(e.cache))

flush_all(e) == truncate(flush_pages(e, get_dirty_pages(e.cache)))

engine_flush_all(e0) == flush_all([e0 EXCEPT !.trace = <<>>])

\* StorageEngine::~StorageEngine: flush_all, then the files are closed.
\* What stays is the two files.
engine_close(e0) == flush_all([e0 EXCEPT !.trace = <<>>])


(***************************************************************************)
(* StorageEngine::linear_search.  buffer is the page buffer of the loop    *)
(* body, which a failed read leaves as it was: stale is what the stack     *)
(* held on entry.  On a failed stream tellg() is -1, every read fails and  *)
(* the loop compares the stale buffer until it ends.                       *)
(***************************************************************************)
RECURSIVE scan_pages(_, _, _, _)
scan_pages(e, key, pid, buffer) ==
    IF e.data_ok /\ pid > Len(e.file)
    THEN Result(e, NotFound)
    ELSE LET got == file_read(e, pid, buffer)
             rec == got.data
             after == [e EXCEPT !.data_ok = got.ok]
         IN  IF ~rec.is_deleted /\ get_key(rec) = key
             THEN Result(after, Found(get_value(rec)))
             ELSE IF got.ok
             THEN scan_pages(after, key, pid + 1, rec)
             ELSE Result(after, NotFound)

engine_linear_search(e0, key, stale) ==
    scan_pages([e0 EXCEPT !.trace = <<>>], key, 1, stale)

\* ------------------------------------------------------------------ inputs

\* The keys and values the operations are called with.  LongKey and
\* LongValue fill their arrays up to the byte kept for the terminator.
LongKey == [i \in 1..(MAX_KEY_SIZE - 1) |-> 5]
LongValue == [i \in 1..(MAX_VALUE_SIZE - 1) |-> 8]
Keys == {<<1>>, <<2>>, <<3>>, <<4>>}
Values == {<<7>>}
NewValues == {<<8>>}

\* The last byte of a Record array is read only when the string fills the
\* array; otherwise it is a byte behind the terminator.
LastByte(str, size) == IF Len(str) >= size - 1 THEN Indet ELSE {0}

\* ------------------------------------------------------------------- state

VARIABLES
    index,          \* StorageEngine::index
    cache,          \* BufferPool::cache
    current_time,   \* BufferPool::current_time
    next_page_id,   \* StorageEngine::next_page_id
    data_ok,        \* state of StorageEngine::data_file
    file,           \* contents of database.dat
    journal,        \* contents of journal.log
    expect,         \* key -> value a key-value store holds after the calls so far
    session,        \* keys of expect inserted by the running engine
    elapsed         \* current_time of the engines destroyed so far, summed

vars == <<index, cache, current_time, next_page_id, data_ok, file, journal,
          expect, session, elapsed>>

\* The running engine as a record, between two operations.
Engine ==
    [index |-> index, cache |-> cache, current_time |-> current_time,
     next_page_id |-> next_page_id, data_ok |-> data_ok, file |-> file,
     journal |-> journal, trace |-> <<>>]

\* The running engine becomes e.
Becomes(e) ==
    /\ index' = e.index
    /\ cache' = e.cache
    /\ current_time' = e.current_time
    /\ next_page_id' = e.next_page_id
    /\ data_ok' = e.data_ok
    /\ file' = e.file
    /\ journal' = e.journal

\* The running engine starts as e.
Starts(e) ==
    /\ index = e.index
    /\ cache = e.cache
    /\ current_time = e.current_time
    /\ next_page_id = e.next_page_id
    /\ data_ok = e.data_ok
    /\ file = e.file
    /\ journal = e.journal

\* The bounds of the exploration.
WithinBounds(e) ==
    /\ elapsed + e.current_time <= MaxClock
    /\ e.next_page_id <= MaxPageId + 1

\* expect with key bound to value, and without key.
Bind(map, key, value) ==
    [k \in DOMAIN map \cup {key} |-> IF k = key THEN value ELSE map[k]]
Unbind(map, key) == [k \in DOMAIN map \ {key} |-> map[k]]

Init ==
    /\ Starts(engine_open(<<>>, <<>>))
    /\ expect = <<>>
    /\ session = {}
    /\ elapsed = 0

Insert(key, value, uk, uv) ==
    \E r \in {engine_insert(Engine, key, value, uk, uv)} :
        /\ ~index.ub
        /\ WithinBounds(r.engine)
        /\ Becomes(r.engine)
        /\ expect' = IF r.ret = TRUE THEN Bind(expect, key, value) ELSE expect
        /\ session' = IF r.ret = TRUE THEN session \cup {key} ELSE session
        /\ UNCHANGED elapsed

Get(key) ==
    \E r \in {engine_get(Engine, key)} :
        /\ ~index.ub
        /\ WithinBounds(r.engine)
        /\ Becomes(r.engine)
        /\ UNCHANGED <<expect, session, elapsed>>

Update(key, value) ==
    \E r \in {engine_update(Engine, key, value)} :
        /\ ~index.ub
        /\ WithinBounds(r.engine)
        /\ Becomes(r.engine)
        /\ expect' = IF r.ret = TRUE THEN Bind(expect, key, value) ELSE expect
        /\ UNCHANGED <<session, elapsed>>

Remove(key) ==
    \E r \in {engine_remove(Engine, key)} :
        /\ ~index.ub
        /\ WithinBounds(r.engine)
        /\ Becomes(r.engine)
        /\ expect' = IF r.ret = TRUE THEN Unbind(expect, key) ELSE expect
        /\ session' = IF r.ret = TRUE THEN session \ {key} ELSE session
        /\ UNCHANGED elapsed

FlushAll ==
    \E r \in {engine_flush_all(Engine)} :
        /\ ~index.ub
        /\ Becomes(r)
        /\ UNCHANGED <<expect, session, elapsed>>

\* What the stack may hold where linear_search puts its buffer: zeros or a
\* page image read before.
StaleBuffers == {EmptyRecord} \cup {file[i] : i \in 1..Len(file)}

LinearSearch(key, stale) ==
    \E r \in {engine_linear_search(Engine, key, stale)} :
        /\ ~index.ub
        /\ Becomes(r.engine)
        /\ UNCHANGED <<expect, session, elapsed>>

\* The engine is destroyed and a new one constructed on the same files.
Reopen ==
    \E closed \in {engine_close(Engine)} :
        /\ ~index.ub
        /\ Becomes(engine_open(closed.file, closed.journal))
        /\ session' = {}
        /\ elapsed' = elapsed + current_time
        /\ UNCHANGED expect

\* The process ends without the destructor and a new engine is constructed.
Crash ==
    /\ ~index.ub
    /\ Becomes(engine_open(file, journal))
    /\ session' = {}
    /\ elapsed' = elapsed + current_time
    /\ UNCHANGED expect

Next ==
    \/ \E key \in Keys, value \in Values :
           \E uk \in LastByte(key, MAX_KEY_SIZE),
              uv \in LastByte(value, MAX_VALUE_SIZE) :
               Insert(key, value, uk, uv)
    \/ \E key \in Keys : Get(key)
    \/ \E key \in Keys, value \in NewValues : Update(key, value)
    \/ \E key \in Keys : Remove(key)
    \/ FlushAll
    \/ \E key \in Keys, stale \in StaleBuffers : LinearSearch(key, stale)
    \/ Reopen
    \/ Crash

Spec == Init /\ [][Next]_vars

(***************************************************************************)
(* The same engine called with strings that fill the Record's arrays up to *)
(* the byte kept for the terminator, next to short ones.                   *)
(***************************************************************************)
BytesKeys == {<<1>>, LongKey}
BytesValues == {<<7>>, LongValue}

NextBytes ==
    \/ \E key \in BytesKeys, value \in BytesValues :
           \E uk \in LastByte(key, MAX_KEY_SIZE),
              uv \in LastByte(value, MAX_VALUE_SIZE) :
               Insert(key, value, uk, uv)
    \/ \E key \in BytesKeys : Get(key)
    \/ \E key \in BytesKeys, value \in BytesValues : Update(key, value)
    \/ \E key \in BytesKeys : Remove(key)
    \/ \E key \in BytesKeys, stale \in StaleBuffers : LinearSearch(key, stale)

SpecBytes == Init /\ [][NextBytes]_vars

(***************************************************************************)
(* An engine built with Config::BTREE_ORDER = DeepOrder, under a client    *)
(* that inserts the keys of DeepKeys from the largest down, inserts keys   *)
(* it has inserted before a second time, removes keys it has inserted      *)
(* twice, and reads.  DeepClock and DeepPageId bound current_time and      *)
(* next_page_id.                                                           *)
(***************************************************************************)
DeepOrder == 4
DeepClock == 9
DeepPageId == 8
DeepKeys == {<<2>>, <<3>>, <<4>>, <<5>>, <<6>>, <<7>>, <<8>>}

WithinDeep(e) ==
    /\ e.current_time <= DeepClock
    /\ e.next_page_id <= DeepPageId + 1

InitDeep ==
    /\ Starts([engine_open(<<>>, <<>>) EXCEPT !.index = NewIndex(DeepOrder)])
    /\ expect = <<>>
    /\ session = {}
    /\ elapsed = 0

\* insert of the largest key not inserted so far.
DeepInsert(key, value) ==
    \E r \in {engine_insert(Engine, key, value, 0, 0)} :
        /\ ~index.ub
        /\ key \notin session
        /\ \A k \in DeepKeys : StrLess(key, k) => k \in session
        /\ WithinDeep(r.engine)
        /\ Becomes(r.engine)
        /\ expect' = IF r.ret = TRUE THEN Bind(expect, key, value) ELSE expect
        /\ session' = session \cup {key}
        /\ UNCHANGED elapsed

\* insert of a key inserted before, with another value.
DeepInsertAgain(key, value) ==
    \E r \in {engine_insert(Engine, key, value, 0, 0)} :
        /\ ~index.ub
        /\ key \in DOMAIN expect
        /\ expect[key] # value
        /\ WithinDeep(r.engine)
        /\ Becomes(r.engine)
        /\ expect' = IF r.ret = TRUE THEN Bind(expect, key, value) ELSE expect
        /\ UNCHANGED <<session, elapsed>>

\* remove of a key whose second insert succeeded.
DeepRemove(key) ==
    \E r \in {engine_remove(Engine, key)} :
        /\ ~index.ub
        /\ key \in DOMAIN expect
        /\ expect[key] \in NewValues
        /\ WithinDeep(r.engine)
        /\ Becomes(r.engine)
        /\ expect' = IF r.ret = TRUE THEN Unbind(expect, key) ELSE expect
        /\ UNCHANGED <<session, elapsed>>

DeepGet(key) ==
    \E r \in {engine_get(Engine, key)} :
        /\ ~index.ub
        /\ WithinDeep(r.engine)
        /\ Becomes(r.engine)
        /\ UNCHANGED <<expect, session, elapsed>>

NextDeep ==
    \/ \E key \in DeepKeys, value \in Values : DeepInsert(key, value)
    \/ \E key \in DeepKeys, value \in NewValues : DeepInsertAgain(key, value)
    \/ \E key \in DeepKeys : DeepRemove(key)
    \/ \E key \in DeepKeys : DeepGet(key)

SpecDeep == InitDeep /\ [][NextDeep]_vars

(***************************************************************************)
(* The BufferPool of a fresh engine called directly: put and get of the    *)
(* page ids of PoolPages in any order, a put of a cached page id and a get *)
(* of an absent one included.  PoolClock bounds current_time.              *)
(***************************************************************************)
PoolClock == 6
PoolPages == 1..4

PoolPut(page_id) ==
    \E r \in {pool_put(Engine, page_id, NewPage(page_id))} :
        /\ r.current_time <= PoolClock
        /\ Becomes(r)
        /\ UNCHANGED <<expect, session, elapsed>>

PoolGet(page_id) ==
    \E r \in {BufferPool_get(Engine, page_id)} :
        /\ r.current_time <= PoolClock
        /\ Becomes(r)
        /\ UNCHANGED <<expect, session, elapsed>>

NextPool ==
    \/ \E page_id \in PoolPages : PoolPut(page_id)
    \/ \E page_id \in PoolPages : PoolGet(page_id)

SpecPool == Init /\ [][NextPool]_vars

(***************************************************************************)
(* The BPlusTreeIndex of a fresh engine called directly by a client that   *)
(* inserts the keys of IndexKeys in any order, each with page id 1, and    *)
(* searches; it removes keys it has inserted and inserts them again with   *)
(* page id 2, MaxAgain of them at most.  expect maps a key to the page id  *)
(* of its latest insert, as long as the key was not removed since.         *)
(***************************************************************************)
IndexKeys == {<<1>>, <<2>>, <<3>>, <<4>>, <<5>>, <<6>>, <<7>>}
MaxAgain == 1

\* The keys the leaves of the heap hold: those inserted so far.
LeafKeys(nodes) ==
    {nodes[n].keys[i] : <<n, i>> \in
        {<<m, j>> \in (1..Len(nodes)) \X (1..BTREE_ORDER) :
            nodes[m].is_leaf /\ j <= Len(nodes[m].keys)}}

\* The inserted keys the client has removed or inserted a second time.
Again ==
    {k \in LeafKeys(index.nodes) : k \notin DOMAIN expect \/ expect[k] = 2}

IndexInsert(key) ==
    \E grown \in {index_insert(index, key, 1)} :
        /\ ~index.ub
        /\ key \notin LeafKeys(index.nodes)
        /\ index' = grown
        /\ expect' = Bind(expect, key, 1)
        /\ UNCHANGED <<cache, current_time, next_page_id, data_ok, file,
                       journal, session, elapsed>>

IndexInsertAgain(key) ==
    \E grown \in {index_insert(index, key, 2)} :
        /\ ~index.ub
        /\ key \in LeafKeys(index.nodes)
        /\ Cardinality(Again \cup {key}) <= MaxAgain
        /\ index' = grown
        /\ expect' = Bind(expect, key, 2)
        /\ UNCHANGED <<cache, current_time, next_page_id, data_ok, file,
                       journal, session, elapsed>>

IndexRemove(key) ==
    \E cut \in {index_remove(index, key)} :
        /\ ~index.ub
        /\ key \in LeafKeys(index.nodes)
        /\ Cardinality(Again \cup {key}) <= MaxAgain
        /\ index' = cut
        /\ expect' = Unbind(expect, key)
        /\ UNCHANGED <<cache, current_time, next_page_id, data_ok, file,
                       journal, session, elapsed>>

\* search changes nothing, unless its descent leaves a children vector.
IndexSearch(key) ==
    \E found \in {index_search(index, key)} :
        /\ ~index.ub
        /\ index' = IF found = -1 THEN [index EXCEPT !.ub = TRUE] ELSE index
        /\ UNCHANGED <<cache, current_time, next_page_id, data_ok, file,
                       journal, expect, session, elapsed>>

NextIndex ==
    \/ \E key \in IndexKeys : IndexInsert(key)
    \/ \E key \in IndexKeys : IndexInsertAgain(key)
    \/ \E key \in IndexKeys : IndexRemove(key)
    \/ \E key \in IndexKeys : IndexSearch(key)

SpecIndex == Init /\ [][NextIndex]_vars

\* ------------------------------------------------------------------ claims

\* Two engines agree on every field but the trace.
SameEngine(a, b) == [a EXCEPT !.trace = <<>>] = [b EXCEPT !.trace = <<>>]

\* The journal entries of the mutations, as op names.
JournalOps == [i \in 1..Len(journal) |-> journal[i].op]

(***************************************************************************)
(* The running engine was constructed on empty files and, so far, every    *)
(* page it allocated belongs to the successful insert of a key of its own: *)
(* the journal holds one INSERT and one COMMIT per allocated page, the     *)
(* keys inserted are pairwise distinct and none was removed, and the       *)
(* stream of the data file is good.                                        *)
(***************************************************************************)
InsertsOnly ==
    /\ elapsed = 0
    /\ data_ok
    /\ ~index.ub
    /\ Cardinality(session) = next_page_id - 1
    /\ Len(journal) = 2 * (next_page_id - 1)
    /\ \A i \in 1..Len(journal) :
           JournalOps[i] = (IF i % 2 = 1 THEN "INSERT" ELSE "COMMIT")

\* C1: after inserts with pairwise distinct keys k1..kn and values v1..vn,
\* get(ki) returns (true, vi) for every i.
C1_RoundTrip ==
    InsertsOnly =>
        \A k \in session : engine_get(Engine, k).ret = Found(expect[k])

\* C2: a key that was inserted and not removed since is rejected by insert:
\* the call returns false, allocates no page, writes no journal entry and
\* leaves the result of get for the key as it was.
C2_DuplicateRejected ==
    (data_ok /\ ~index.ub) =>
        \A k \in session, v \in NewValues :
            LET r == engine_insert(Engine, k, v, 0, 0)
            IN  /\ r.ret = FALSE
                /\ r.engine.next_page_id = next_page_id
                /\ r.engine.journal = journal
                /\ engine_get(r.engine, k).ret = engine_get(Engine, k).ret

\* The step is the successful remove(k) of a key k the running engine had
\* inserted.
Removes(k) ==
    /\ k \in session
    /\ data_ok
    /\ engine_remove(Engine, k).ret = TRUE
    /\ SameEngine(Engine', engine_remove(Engine, k).engine)

\* C3: after insert(k, v) and remove(k) have returned true, get(k) returns
\* (false, ""), update(k, _) and remove(k) return false, and insert(k, v'')
\* returns true, after which get(k) returns (true, v'').
C3_DeleteOcclusion ==
    [][\A k \in BytesKeys :
           Removes(k) =>
               /\ engine_get(Engine', k).ret = NotFound
               /\ engine_remove(Engine', k).ret = FALSE
               /\ \A v \in BytesValues :
                      /\ engine_update(Engine', k, v).ret = FALSE
                      /\ \A uk \in LastByte(k, MAX_KEY_SIZE),
                            uv \in LastByte(v, MAX_VALUE_SIZE) :
                             LET again == engine_insert(Engine', k, v, uk, uv)
                             IN  /\ again.ret = TRUE
                                 /\ engine_get(again.engine, k).ret = Found(v)
      ]_vars

\* C4: for a key that was inserted and not removed, update(k, v') returns
\* true and get(k) then returns (true, v'); a second update(k, v') returns
\* true and get(k) still returns (true, v').
C4_UpdateIdempotent ==
    (data_ok /\ ~index.ub) =>
        \A k \in session, v \in NewValues :
            LET once == engine_update(Engine, k, v)
                twice == engine_update(once.engine, k, v)
            IN  /\ once.ret = TRUE
                /\ engine_get(once.engine, k).ret = Found(v)
                /\ twice.ret = TRUE
                /\ engine_get(twice.engine, k).ret = Found(v)

\* The call r on engine e0 found nothing and changed nothing.
NoEffect(e0, r, ret) == r.ret = ret /\ SameEngine(r.engine, e0)

\* C5: for a key that was never inserted, or was removed and not inserted
\* again, get returns (false, ""), update and remove return false, and each
\* call leaves the journal, the data file, the index, the buffer pool and
\* next_page_id as they were.
C5_NotFoundUnchanged ==
    ~index.ub =>
        \A k \in DeepKeys \ DOMAIN expect :
            /\ NoEffect(Engine, engine_get(Engine, k), NotFound)
            /\ NoEffect(Engine, engine_remove(Engine, k), FALSE)
            /\ \A v \in NewValues :
                   NoEffect(Engine, engine_update(Engine, k, v), FALSE)

\* C6: after insert(k, v) has returned true, closing the engine and opening
\* a new one on the same files gives an engine whose get(k) returns (true, v).
C6_DurableAcrossReopen ==
    InsertsOnly =>
        LET closed == engine_close(Engine)
            reopened == engine_open(closed.file, closed.journal)
        IN  \A k \in session : engine_get(reopened, k).ret = Found(expect[k])

\* The calls of a trace, as names.
TraceOps(trace) == [i \in 1..Len(trace) |-> trace[i].ev]

(***************************************************************************)
(* The calls of the successful mutation r, made on engine e0, reached the  *)
(* files in the order calls: the first is the journal entry op, appended   *)
(* while the data file is still as it was before the call, and the last    *)
(* is the COMMIT entry.                                                    *)
(***************************************************************************)
InOrder(e0, r, op, calls) ==
    r.ret = TRUE =>
        LET t == r.engine.trace
        IN  /\ TraceOps(t) = calls
            /\ t[1].file = e0.file
            /\ Len(t[1].journal) = Len(e0.journal) + 1
            /\ t[1].journal[Len(t[1].journal)].op = op
            /\ \A i \in 2..(Len(t) - 1) : t[i].journal = t[1].journal
            /\ Len(r.engine.journal) = Len(e0.journal) + 2
            /\ r.engine.journal[Len(r.engine.journal)].op = "COMMIT"

\* C7: in every successful insert, update and remove the journal entry of
\* the operation is appended before the page is written to the data file,
\* and the COMMIT entry is appended after the page write and the index
\* change.
C7_WriteAhead ==
    ~index.ub =>
        \A key \in Keys :
            /\ \A value \in Values :
                   InOrder(Engine, engine_insert(Engine, key, value, 0, 0),
                           "INSERT", <<"INSERT", "WRITE", "INDEX", "COMMIT">>)
            /\ \A value \in NewValues :
                   InOrder(Engine, engine_update(Engine, key, value),
                           "UPDATE", <<"UPDATE", "WRITE", "COMMIT">>)
            /\ InOrder(Engine, engine_remove(Engine, key),
                       "DELETE", <<"DELETE", "WRITE", "INDEX", "COMMIT">>)

\* C7, its case: the journal holds a committed insert, update and remove.
C7_Witness ==
    /\ {"INSERT", "UPDATE", "DELETE"} \subseteq
           {JournalOps[i] : i \in 1..Len(journal)}
    /\ JournalOps[Len(journal)] = "COMMIT"

\* The first size - 1 bytes of two char arrays agree (the text before the
\* byte kept for the terminator).
SameText(a, b, size) == SubSeq(a, 1, size - 1) = SubSeq(b, 1, size - 1)

\* The record rec shows what journal entry did to the record of key.
HasEffect(entry, rec, key) ==
    /\ SameText(rec.key, key, MAX_KEY_SIZE)
    /\ IF entry.op = "DELETE"
       THEN rec.is_deleted
       ELSE SameText(rec.value, entry.value, MAX_VALUE_SIZE)

\* Entry i of journal j is a mutation immediately followed by a COMMIT.
Committed(j, i) ==
    /\ i < Len(j)
    /\ j[i].op \in {"INSERT", "UPDATE", "DELETE"}
    /\ j[i + 1].op = "COMMIT"

(***************************************************************************)
(* Every committed entry of journal j has its effect in data file f: some  *)
(* page (the entry's page; an INSERT entry names none) holds the entry's   *)
(* key with the entry's value or deletion flag, or with that of a later    *)
(* entry on the same page (committed or, at a point between the page write *)
(* and the COMMIT of the running operation, not yet).                      *)
(***************************************************************************)
CommittedApplied(j, f) ==
    \A i \in 1..Len(j) :
        Committed(j, i) =>
            \E p \in 1..(Len(f) - 1) :
                /\ j[i].op = "INSERT" \/ j[i].page_id = p
                /\ \E n \in i..Len(j) :
                       /\ n = i \/ (j[n].op \in {"UPDATE", "DELETE"}
                                        /\ j[n].page_id = p)
                       /\ HasEffect(j[n], f[p + 1], j[i].key)

\* The files at every call of the operation r are as CommittedApplied says.
AppliedThroughout(r) ==
    \A i \in 1..Len(r.engine.trace) :
        CommittedApplied(r.engine.trace[i].journal, r.engine.trace[i].file)

\* C8: at every point of every execution, between operations and between
\* the steps of one, each committed journal entry has its effect in the
\* data file.
C8_CommittedApplied ==
    ~index.ub =>
        /\ CommittedApplied(journal, file)
        /\ \A key \in Keys :
               /\ \A value \in Values :
                      AppliedThroughout(engine_insert(Engine, key, value, 0, 0))
               /\ \A value \in NewValues :
                      AppliedThroughout(engine_update(Engine, key, value))
               /\ AppliedThroughout(engine_remove(Engine, key))

\* What the checkpoint r of engine e0 leaves: an empty journal, no dirty
\* page, the index and every get as before, and nothing for a second
\* checkpoint to do.
Checkpointed(e0, r) ==
    /\ r.journal = <<>>
    /\ get_dirty_pages(r.cache) = {}
    /\ r.index = e0.index
    /\ \A k \in Keys : engine_get(r, k).ret = engine_get(e0, k).ret
    /\ SameEngine(engine_flush_all(r), r)

\* C9: after flush_all, and after the engine is closed, the journal is empty
\* and no page of the pool is dirty; flush_all changes neither the index nor
\* the result of any get, and a second flush_all changes nothing.
C9_Checkpoint ==
    ~index.ub =>
        /\ Checkpointed(Engine, engine_flush_all(Engine))
        /\ Checkpointed(Engine, engine_close(Engine))

\* C9, its case: a checkpoint was taken after the running engine had
\* inserted, and the journal is empty.
C9_Witness ==
    /\ session # {}
    /\ journal = <<>>
    /\ DOMAIN cache # {}

\* C10: after any engine operation, and after any BufferPool put or get on
\* top of it, the pool holds at most CACHE_SIZE pages.
C10_CacheBound ==
    /\ Cardinality(DOMAIN cache) <= CACHE_SIZE
    /\ \A p \in 1..(MaxPageId + 1) :
           Cardinality(DOMAIN pool_put(Engine, p, NewPage(p)).cache) <= CACHE_SIZE
    /\ \A p \in DOMAIN cache :
           Cardinality(DOMAIN pool_get(Engine, p).cache) <= CACHE_SIZE

\* C10, its case: the pool is full and a page of a key the running engine
\* inserted is no longer in it.
C10_Witness ==
    /\ Cardinality(DOMAIN cache) = CACHE_SIZE
    /\ \E k \in session :
           /\ index_search(index, k) > 0
           /\ index_search(index, k) \notin DOMAIN cache

\* The cached page whose access_time is below that of every other.
IsOldest(p) ==
    /\ p \in DOMAIN cache
    /\ \A q \in DOMAIN cache \ {p} :
           cache[p].access_time < cache[q].access_time

\* The put r of page p bumped the clock and made p the newest entry; on a
\* full pool it removed the oldest entry and no other.
PutEvictsOldest(p, r) ==
    /\ r.current_time > current_time
    /\ r.cache[p].access_time = r.current_time
    /\ \A q \in DOMAIN r.cache \ {p} : r.cache[q] = cache[q]
    /\ IF Cardinality(DOMAIN cache) >= CACHE_SIZE
       THEN \E victim \in DOMAIN cache :
                /\ IsOldest(victim)
                /\ DOMAIN r.cache = (DOMAIN cache \ {victim}) \cup {p}
       ELSE DOMAIN r.cache = DOMAIN cache \cup {p}

\* The get r of page p: a hit bumped the clock and made p the newest entry
\* and changed no other; a miss changed nothing.
GetBumps(p, r) ==
    IF p \in DOMAIN cache
    THEN /\ r.current_time > current_time
         /\ DOMAIN r.cache = DOMAIN cache
         /\ r.cache[p].access_time = r.current_time
         /\ \A q \in DOMAIN cache \ {p} : r.cache[q] = cache[q]
    ELSE r = Engine

\* C11: the access times of the cached entries are pairwise distinct and
\* none is ahead of the clock; every put and every get-hit advances the
\* clock and stamps its entry with it, a get-miss changes nothing; and a put
\* on a pool that holds CACHE_SIZE entries removes exactly one entry, the
\* one with the least access time.
C11_LRU ==
    /\ \A p \in DOMAIN cache :
           /\ cache[p].access_time <= current_time
           /\ \A q \in DOMAIN cache \ {p} :
                  cache[p].access_time # cache[q].access_time
    /\ \A p \in PoolPages :
           /\ PutEvictsOldest(p, pool_put(Engine, p, NewPage(p)))
           /\ GetBumps(p, BufferPool_get(Engine, p))

\* C11, its case: the pool is full after more puts and hits than it has
\* room for, a hit or a second put has made its oldest entry another than
\* the one with the least page id, and the put of an absent page removes
\* that oldest entry.
C11_Witness ==
    /\ Cardinality(DOMAIN cache) = CACHE_SIZE
    /\ current_time > CACHE_SIZE + 1
    /\ \E victim \in DOMAIN cache, p \in PoolPages \ DOMAIN cache :
           /\ IsOldest(victim)
           /\ victim # Min(DOMAIN cache)
           /\ victim \notin DOMAIN pool_put(Engine, p, NewPage(p)).cache

\* C12: after any sequence of index inserts and removes, search(k) returns
\* the page id of the latest insert of k if k was not removed since, and 0
\* if k was never inserted or was removed since.
C12_IndexMap ==
    ~index.ub =>
        \A k \in IndexKeys :
            index_search(index, k) = (IF k \in DOMAIN expect THEN expect[k] ELSE 0)

\* C13: after any sequence of insert, update and remove calls in one
\* session, linear_search(k) returns the same (found, value) pair as get(k)
\* for every key k.
C13_LinearAgrees ==
    (elapsed = 0 /\ data_ok /\ ~index.ub) =>
        \A k \in Keys, stale \in StaleBuffers :
            engine_linear_search(Engine, k, stale).ret = engine_get(Engine, k).ret

\* The keys held by the leaves below node n.
RECURSIVE SubtreeKeys(_, _)
SubtreeKeys(nodes, n) ==
    IF nodes[n].is_leaf
    THEN {nodes[n].keys[i] : i \in 1..Len(nodes[n].keys)}
    ELSE UNION {SubtreeKeys(nodes, nodes[n].children[i]) :
                   i \in 1..Len(nodes[n].children)}

\* Whether the keys of a vector are strictly ascending.
Ascending(keys) ==
    \A i \in 1..(Len(keys) - 1) : StrLess(keys[i], keys[i + 1])

\* C14: in every internal node, every key stored below a child is greater
\* than or equal to the separator to the left of the child and strictly less
\* than the separator to its right.
C14_SeparatorBounds ==
    ~index.ub =>
        \A n \in 1..Len(index.nodes) :
            ~index.nodes[n].is_leaf =>
                \A i \in 1..Len(index.nodes[n].children) :
                    \A k \in SubtreeKeys(index.nodes, index.nodes[n].children[i]) :
                        /\ (i >= 2 /\ i - 1 <= Len(index.nodes[n].keys)) =>
                               ~StrLess(k, index.nodes[n].keys[i - 1])
                        /\ i <= Len(index.nodes[n].keys) =>
                               StrLess(k, index.nodes[n].keys[i])

\* C15: after any sequence of index inserts and removes the keys of every
\* node, leaf or internal, are strictly ascending (stated for the sequences
\* that pass no key twice).
C15_SortedNodes ==
    (~index.ub /\ Again = {}) =>
        \A n \in 1..Len(index.nodes) : Ascending(index.nodes[n].keys)

\* C16: get_all_keys returns the keys in strictly ascending order.
C16_OrderedEnumeration ==
    ~index.ub => Ascending(get_all_keys(index))

\* The leaves along the forward pointers from node n, fuel of them at most.
RECURSIVE chain_leaves(_, _, _)
chain_leaves(nodes, n, fuel) ==
    IF n = 0 \/ fuel = 0
    THEN <<>>
    ELSE <<n>> \o chain_leaves(nodes, nodes[n].next, fuel - 1)

\* The leaves reachable from node n through child references.
RECURSIVE ReachableLeaves(_, _)
ReachableLeaves(nodes, n) ==
    IF nodes[n].is_leaf
    THEN {n}
    ELSE UNION {ReachableLeaves(nodes, nodes[n].children[i]) :
                   i \in 1..Len(nodes[n].children)}

\* The keys a recursive traversal from node n yields: a leaf's keys, an
\* internal node's children from the i-th on, one after the other.
RECURSIVE traverse(_, _, _)
traverse(nodes, n, i) ==
    IF nodes[n].is_leaf
    THEN nodes[n].keys
    ELSE IF i > Len(nodes[n].children)
    THEN <<>>
    ELSE traverse(nodes, nodes[n].children[i], 1) \o traverse(nodes, n, i + 1)

\* How often key occurs in a vector of keys.
Count(keys, key) == Cardinality({i \in 1..Len(keys) : keys[i] = key})

\* C17: the chain of forward pointers from the leftmost leaf ends in a null
\* pointer, passes no leaf twice and passes exactly the leaves reachable
\* from the root; get_all_keys yields the same multiset of keys as a
\* recursive traversal of the tree.
C17_LeafChain ==
    LET chain == chain_leaves(index.nodes,
                              leftmost_leaf(index.nodes, index.root),
                              Len(index.nodes) + 1)
    IN  /\ Len(chain) <= Len(index.nodes)
        /\ \A i, j \in 1..Len(chain) : chain[i] = chain[j] => i = j
        /\ {chain[i] : i \in 1..Len(chain)} =
               ReachableLeaves(index.nodes, index.root)
        /\ Len(get_all_keys(index)) = Len(traverse(index.nodes, index.root, 1))
        /\ \A k \in IndexKeys :
               Count(get_all_keys(index), k) =
                   Count(traverse(index.nodes, index.root, 1), k)

\* C17, its case: leaves have split, an internal node has split and the
\* root has grown twice, so that the chain runs below several parents.
C17_Witness ==
    /\ ~index.ub
    /\ Cardinality({n \in 1..Len(index.nodes) : ~index.nodes[n].is_leaf}) >= 3
    /\ Cardinality(ReachableLeaves(index.nodes, index.root)) >= 4
    /\ Len(get_all_keys(index)) = Cardinality(IndexKeys)

\* C18: every internal node has one child more than it has keys.
C18_InternalShape ==
    ~index.ub =>
        \A n \in 1..Len(index.nodes) :
            ~index.nodes[n].is_leaf =>
                Len(index.nodes[n].children) = Len(index.nodes[n].keys) + 1

(***************************************************************************)
(* The insert of key into the index pre gave post, and on the way the      *)
(* leaf the root sent the key to split, which filled the root, an internal *)
(* node, so that the root split and a new root was made: three new nodes,  *)
(* the leaf, the root's sibling and the new root, in this order.           *)
(***************************************************************************)
RootSplits(pre, post) ==
    /\ ~pre.nodes[pre.root].is_leaf
    /\ ~post.ub
    /\ Len(post.nodes) = Len(pre.nodes) + 3
    /\ pre.nodes[pre.nodes[pre.root].children[
           child_position(pre.nodes[pre.root], CHOOSE k \in
               LeafKeys(post.nodes) \ LeafKeys(pre.nodes) : TRUE) + 1]].is_leaf

\* The keys and the children of the root of pre when it reached the order:
\* its vectors with the promoted key of the new leaf and the new leaf put in
\* (lines 423-424).
FullKeys(pre, post, key) ==
    VecInsert(pre.nodes[pre.root].keys,
              child_position(pre.nodes[pre.root], key) + 1,
              post.nodes[Len(pre.nodes) + 1].keys[1])
FullChildren(pre, key) ==
    VecInsert(pre.nodes[pre.root].children,
              child_position(pre.nodes[pre.root], key) + 1,
              Len(pre.nodes) + 1)

\* The split of the full node n of pre, with keys and children when it
\* reached the order, is as the claim says: post holds the promoted key
\* keys[mid] in the new root, keys[..mid] and children[..mid+1] in n, and
\* keys[mid+1..] and children[mid+1..] in the new node.
SplitAtMid(pre, post, keys, children) ==
    LET mid == Len(keys) \div 2
        n == pre.root
        new == Len(pre.nodes) + 2
    IN  /\ post.nodes[post.root].keys = <<keys[mid + 1]>>
        /\ post.nodes[n].keys = SubSeq(keys, 1, mid)
        /\ post.nodes[n].children = SubSeq(children, 1, mid + 1)
        /\ post.nodes[new].keys = SubSeq(keys, mid + 2, Len(keys))
        /\ post.nodes[new].children = SubSeq(children, mid + 2, Len(children))
        /\ \A i \in 1..Len(keys) :
               i # mid + 1 =>
                   \E j \in 1..Len(post.nodes[n].keys \o post.nodes[new].keys) :
                       (post.nodes[n].keys \o post.nodes[new].keys)[j] = keys[i]

\* C19: when an internal node reaches the order and is split with
\* mid = keys.size / 2, the key promoted is keys[mid], the node retains
\* keys[..mid] and children[..mid+1], the new node receives keys[mid+1..]
\* and children[mid+1..], and no separator but the promoted one is lost.
C19_InternalSplit ==
    ~index.ub =>
        \A key \in IndexKeys \ LeafKeys(index.nodes) :
            RootSplits(index, index_insert(index, key, 1)) =>
                SplitAtMid(index, index_insert(index, key, 1),
                           FullKeys(index, index_insert(index, key, 1), key),
                           FullChildren(index, key))

\* C20: every internal node has at least one separator key, and the child
\* position the descent computes for any key is an index into the node's
\* children vector.
C20_ValidDescent ==
    ~index.ub =>
        \A n \in 1..Len(index.nodes) :
            ~index.nodes[n].is_leaf =>
                /\ Len(index.nodes[n].keys) >= 1
                /\ \A key \in IndexKeys :
                       ValidChild(index.nodes[n],
                                  child_position(index.nodes[n], key))

\* The depths, counted from node n at depth d, of the leaves below n.
RECURSIVE LeafDepths(_, _, _)
LeafDepths(nodes, n, d) ==
    IF nodes[n].is_leaf
    THEN {d}
    ELSE UNION {LeafDepths(nodes, nodes[n].children[i], d + 1) :
                   i \in 1..Len(nodes[n].children)}

\* The depths of the leaves of an index.
Depths(tree) == LeafDepths(tree.nodes, tree.root, 0)

\* The insert that turned pre into post kept all leaves at one depth, and
\* where it changed that depth it made a new root over the old one and put
\* every leaf one level further down.
GrowsAtRoot(pre, post) ==
    /\ Cardinality(Depths(post)) = 1
    /\ Depths(post) # Depths(pre) =>
           /\ post.root > Len(pre.nodes)
           /\ post.nodes[post.root].children[1] = pre.root
           /\ Depths(post) = {d + 1 : d \in Depths(pre)}
    /\ post.root # pre.root => Depths(post) # Depths(pre)

\* C21: after any sequence of index inserts all leaves are at the same depth
\* from the root, and the height changes only when insert makes a new root
\* after the old root split, which puts every leaf one level deeper.
C21_BalancedHeight ==
    /\ Cardinality(Depths(index)) = 1
    /\ ~index.ub =>
           \A key \in IndexKeys :
               \A grown \in {index_insert(index, key, 1)} :
                   ~grown.ub => GrowsAtRoot(index, grown)

\* C21, its case: the root has grown twice, first over a split leaf and
\* then over a split internal node.
C21_Witness ==
    /\ ~index.ub
    /\ Depths(index) = {2}

\* C22: after every insert has returned, every node of the tree, leaf or
\* internal, the nodes made by splits included, holds strictly fewer keys
\* than the order of the tree.
C22_NoFullNode ==
    \A n \in 1..Len(index.nodes) : Len(index.nodes[n].keys) < index.order

\* C22, its case: leaves and an internal node have been split, and a node
\* holds one key less than the order.
C22_Witness ==
    /\ ~index.ub
    /\ Cardinality({n \in 1..Len(index.nodes) : ~index.nodes[n].is_leaf}) >= 3
    /\ \E n \in 1..Len(index.nodes) :
           Len(index.nodes[n].keys) = index.order - 1

\* The leaf slots, as <<node, position>>, whose value differs between two
\* indexes with the same nodes and keys.
ChangedSlots(pre, post) ==
    {slot \in (1..Len(pre.nodes)) \X (1..BTREE_ORDER) :
        /\ slot[2] <= Len(pre.nodes[slot[1]].values)
        /\ post.nodes[slot[1]].values[slot[2]] # pre.nodes[slot[1]].values[slot[2]]}

\* remove(key) turned pre into post by setting the value of at most one leaf
\* slot to 0, a slot that holds key, and changed nothing else.
TombstoneOnly(pre, post, key) ==
    /\ post.root = pre.root
    /\ post.order = pre.order
    /\ Len(post.nodes) = Len(pre.nodes)
    /\ \A n \in 1..Len(pre.nodes) :
           /\ post.nodes[n].is_leaf = pre.nodes[n].is_leaf
           /\ post.nodes[n].keys = pre.nodes[n].keys
           /\ post.nodes[n].children = pre.nodes[n].children
           /\ post.nodes[n].next = pre.nodes[n].next
           /\ Len(post.nodes[n].values) = Len(pre.nodes[n].values)
    /\ Cardinality(ChangedSlots(pre, post)) <= 1
    /\ \A slot \in ChangedSlots(pre, post) :
           /\ pre.nodes[slot[1]].is_leaf
           /\ pre.nodes[slot[1]].keys[slot[2]] = key
           /\ post.nodes[slot[1]].values[slot[2]] = 0
    /\ index_search(pre, key) # 0 => ChangedSlots(pre, post) # {}

\* C23: remove(key) changes at most the value of the leaf slot that holds
\* key, which becomes 0, and leaves the keys, children and forward pointers
\* of every node as they were, so that key stays in get_all_keys; afterwards
\* search(key) returns 0; remove of a key that is not present changes
\* nothing.  (Stated for the calls whose descent stays inside the children
\* vectors.)
C23_Tombstone ==
    ~index.ub =>
        \A key \in IndexKeys :
            \A cut \in {index_remove(index, key)} :
                ~cut.ub =>
                    /\ TombstoneOnly(index, cut, key)
                    /\ get_all_keys(cut) = get_all_keys(index)
                    /\ index_search(cut, key) = 0
                    /\ key \notin LeafKeys(index.nodes) => cut = index

\* C23, its case: a key was removed after leaves had split, and its slot is
\* still in its leaf with the value 0.
C23_Witness ==
    /\ ~index.ub
    /\ Len(index.nodes) >= 3
    /\ \E n \in 1..Len(index.nodes) :
           \E i \in 1..Len(index.nodes[n].values) :
               /\ index.nodes[n].is_leaf
               /\ index.nodes[n].values[i] = 0
               /\ index.nodes[n].keys[i] \notin DOMAIN expect

\* The values of the slots that hold key in the leaf the insert of key
\* descends to: empty when the leaf-insert code takes the new-slot branch,
\* the value it overwrites when it takes the existing-key branch.
Overwritten(tree, key) ==
    IF find_leaf(tree.nodes, tree.root, key) = -1
    THEN {}
    ELSE LET node == tree.nodes[find_leaf(tree.nodes, tree.root, key)]
         IN  {node.values[i] : i \in {j \in 1..Len(node.keys) :
                 j = find_position(node, key) + 1 /\ node.keys[j] = key}}

\* C24, as stated: no insert that the engine accepts makes the leaf-insert
\* code find the key already present in the leaf and overwrite its value.
C24_NoLeafOverwrite ==
    \A key \in Keys : \A value \in Values :
        engine_insert(Engine, key, value, 0, 0).ret = TRUE =>
            Overwritten(index, key) = {}

\* C24, amended: an insert that the engine accepts makes the leaf-insert code
\* overwrite a value only when the key's slot is a tombstone: the value it
\* overwrites is 0, never the page id of a live record.
C24_OverwritesOnlyTombstone ==
    \A key \in Keys : \A value \in Values :
        \/ Overwritten(index, key) \subseteq {0}
        \/ engine_insert(Engine, key, value, 0, 0).ret # TRUE

\* C24, its case: a key inserted, removed and inserted again in one session:
\* its slot holds the page of the second record and the page of the first,
\* marked deleted, is in the pool.
C24_Witness ==
    \E key \in session :
        /\ index_search(index, key) > 1
        /\ \E p \in DOMAIN cache :
               /\ p < index_search(index, key)
               /\ cache[p].page.data.is_deleted
               /\ get_key(cache[p].page.data) = key

\* The leaf slots of a tree, as <<node, position>>, and those that hold a
\* page id.
LeafSlots(tree) ==
    {slot \in (1..Len(tree.nodes)) \X (1..BTREE_ORDER) :
        /\ tree.nodes[slot[1]].is_leaf
        /\ slot[2] <= Len(tree.nodes[slot[1]].values)}
PageSlots(tree) ==
    {slot \in LeafSlots(tree) : tree.nodes[slot[1]].values[slot[2]] # 0}

\* insert(key, value) turned the engine pre into post using pre's counter as
\* the page id: the record in the pool and the key's leaf slot carry it, and
\* the counter is one more.
AllocatesNext(pre, post, key) ==
    /\ post.next_page_id = pre.next_page_id + 1
    /\ pre.next_page_id \in DOMAIN post.cache
    /\ post.cache[pre.next_page_id].page.page_id = pre.next_page_id
    /\ read_record(post.cache[pre.next_page_id].page).page_id = pre.next_page_id
    /\ get_key(read_record(post.cache[pre.next_page_id].page)) = key
    /\ \E slot \in LeafSlots(post.index) :
           /\ post.index.nodes[slot[1]].keys[slot[2]] = key
           /\ post.index.nodes[slot[1]].values[slot[2]] = pre.next_page_id

\* C25: next_page_id is never 0 and no operation decreases it; an accepted
\* insert uses its value as the page id of the new record and adds one to
\* it; get, update, remove, flush_all and a rejected insert leave it as it
\* is; no two leaf slots hold the same nonzero page id and
\* every nonzero page id in the index is less than next_page_id.
C25_MonotonicAllocation ==
    /\ next_page_id >= 1
    /\ \A key \in Keys :
           /\ \A value \in Values :
                  \A r \in {engine_insert(Engine, key, value, 0, 0)} :
                      IF r.ret = TRUE
                      THEN AllocatesNext(Engine, r.engine, key)
                      ELSE r.engine.next_page_id = next_page_id
           /\ engine_get(Engine, key).engine.next_page_id = next_page_id
           /\ \A value \in NewValues :
                  engine_update(Engine, key, value).engine.next_page_id
                      = next_page_id
           /\ engine_remove(Engine, key).engine.next_page_id = next_page_id
    /\ engine_flush_all(Engine).next_page_id = next_page_id
    /\ \A slot \in PageSlots(index) :
           index.nodes[slot[1]].values[slot[2]] < next_page_id
    /\ \A s, t \in PageSlots(index) :
           index.nodes[s[1]].values[s[2]] = index.nodes[t[1]].values[t[2]]
               => s = t

\* C25, its case: a session whose three accepted inserts were given the
\* pages 1, 2 and 3.
C25_Witness ==
    /\ Cardinality(session) = 3
    /\ {index.nodes[slot[1]].values[slot[2]] : slot \in PageSlots(index)}
           = {1, 2, 3}
    /\ next_page_id = 4

\* The page ids of the pages in a data file: block i is the page i - 1.
PagesOf(blocks) == {i - 1 : i \in 1..Len(blocks)}

\* post keeps every page of pre as it was.
KeepsPages(pre, post) ==
    /\ Len(post) >= Len(pre)
    /\ \A i \in 1..Len(pre) : post[i] = pre[i]

\* An engine opened on a data file starts with a next_page_id that is not 0
\* and is greater than the id of every page of the file.
OpensBeyond(blocks, log) ==
    \A opened \in {engine_open(blocks, log)} :
        /\ opened.next_page_id >= 1
        /\ \A p \in PagesOf(blocks) : opened.next_page_id > p

\* C26: an engine opened on the data file as the running engine leaves it,
\* by its destructor or without it, starts with a next_page_id that is not 0
\* and is greater than the id of every page written to the file; in every
\* state, those of an engine opened on an earlier session's file included,
\* next_page_id is greater than the id of every page of the file and an
\* insert keeps every page of the file as it was.
C26_NoOverwriteAfterReopen ==
    /\ \A closed \in {engine_close(Engine)} :
           OpensBeyond(closed.file, closed.journal)
    /\ OpensBeyond(file, journal)
    /\ \A p \in PagesOf(file) : next_page_id > p
    /\ \A key \in Keys : \A value \in Values :
           KeepsPages(file, engine_insert(Engine, key, value, 0, 0).engine.file)

\* C26, its case: an engine opened on a file that held page 1 has inserted
\* a record, which went to page 3, and page 1 is still there.
C26_Witness ==
    /\ elapsed > 0
    /\ session # {}
    /\ next_page_id = 4
    /\ Len(file) = 4
    /\ file[2] # EmptyRecord
    /\ file[4] # EmptyRecord

\* The cached page p is clean and holds the bytes the data file holds for p.
CleanAndOnDisk(e, p) ==
    /\ ~e.cache[p].page.is_dirty
    /\ p + 1 <= Len(e.file)
    /\ e.file[p + 1] = e.cache[p].page.data

\* C27: between two operations every page in the buffer pool is clean and
\* equal to the image the data file holds for its page id, so that whatever
\* the pool evicts next is not dirty and loses nothing, and get finds the
\* same record in the pool as it would read from the file.
C27_NothingLostOnEviction ==
    \A p \in DOMAIN cache : CleanAndOnDisk(Engine, p)

\* A journal entry is the entry of the mutation op on key with value and
\* page_id.
Logs(entry, op, key, value, page_id) ==
    /\ entry.op = op
    /\ CString(entry.key, 1) = key
    /\ CString(entry.value, 1) = value
    /\ entry.page_id = page_id

\* post is pre with one [operation entry, COMMIT] pair behind it.
AppendsPair(pre, post, op, key, value, page_id) ==
    /\ Len(post) = Len(pre) + 2
    /\ SubSeq(post, 1, Len(pre)) = pre
    /\ Logs(post[Len(pre) + 1], op, key, value, page_id)
    /\ post[Len(pre) + 2].op = "COMMIT"

\* C28: between two operations the journal is a sequence of [operation
\* entry, COMMIT] pairs.  An accepted insert, update or remove puts exactly
\* one pair behind the entries that are there: INSERT with key and value,
\* UPDATE with key, new value and the key's page id, DELETE with key and the
\* key's page id.  An operation that returns false, a get and a
\* linear_search leave the journal as it is, and flush_all and the
\* destructor empty it.
C28_JournalShape ==
    /\ Len(journal) % 2 = 0
    /\ \A i \in 1..Len(journal) :
           IF i % 2 = 1
           THEN journal[i].op \in {"INSERT", "UPDATE", "DELETE"}
           ELSE journal[i].op = "COMMIT"
    /\ \A key \in Keys :
           /\ \A value \in Values :
                  \A r \in {engine_insert(Engine, key, value, 0, 0)} :
                      IF r.ret = TRUE
                      THEN AppendsPair(journal, r.engine.journal,
                               "INSERT", key, value, 0)
                      ELSE r.engine.journal = journal
           /\ \A value \in NewValues :
                  \A r \in {engine_update(Engine, key, value)} :
                      IF r.ret = TRUE
                      THEN AppendsPair(journal, r.engine.journal,
                               "UPDATE", key, value, index_search(index, key))
                      ELSE r.engine.journal = journal
           /\ \A r \in {engine_remove(Engine, key)} :
                  IF r.ret = TRUE
                  THEN AppendsPair(journal, r.engine.journal,
                           "DELETE", key, <<>>, index_search(index, key))
                  ELSE r.engine.journal = journal
           /\ engine_get(Engine, key).engine.journal = journal
           /\ \A stale \in StaleBuffers :
                  engine_linear_search(Engine, key, stale).engine.journal
                      = journal
    /\ engine_flush_all(Engine).journal = <<>>
    /\ engine_close(Engine).journal = <<>>

\* C28, its case: an insert, an update and a remove were accepted since the
\* last truncation, and the journal holds their three pairs in that order.
C28_Witness ==
    /\ Len(journal) = 6
    /\ journal[1].op = "INSERT"
    /\ journal[3].op = "UPDATE"
    /\ journal[3].page_id # 0
    /\ journal[5].op = "DELETE"

\* Page p, as given, holds the live record of key: its key is key, its page
\* id is p and it is not marked deleted.
HoldsRecord(rec, key, p) ==
    /\ get_key(rec) = key
    /\ rec.page_id = p
    /\ ~rec.is_deleted

\* C29: between two operations, for every key that index.search finds with a
\* page id p other than 0, page p holds the live record of the key in the
\* data file, and in the buffer pool if it is cached.
C29_IndexRecordConsistent ==
    ~index.ub =>
        \A key \in Keys :
            index_search(index, key) > 0 =>
                /\ index_search(index, key) + 1 <= Len(file)
                /\ HoldsRecord(file[index_search(index, key) + 1], key,
                                index_search(index, key))
                /\ index_search(index, key) \in DOMAIN cache =>
                       HoldsRecord(
                           read_record(cache[index_search(index, key)].page),
                           key, index_search(index, key))

\* Two results of one operation return the same value and leave the same
\* data file.
SameOutcome(r1, r2) ==
    /\ r1.ret = r2.ret
    /\ r1.engine.file = r2.engine.file

\* Every insert, get, update and remove of key returns the same value and
\* leaves the same data file when called on the engine a as when called on
\* the engine b.
SameLater(a, b, key) ==
    /\ \A value \in Values :
           SameOutcome(engine_insert(a, key, value, 0, 0),
                       engine_insert(b, key, value, 0, 0))
    /\ SameOutcome(engine_get(a, key), engine_get(b, key))
    /\ \A value \in NewValues :
           SameOutcome(engine_update(a, key, value),
                       engine_update(b, key, value))
    /\ SameOutcome(engine_remove(a, key), engine_remove(b, key))

\* C30: a call of linear_search, found or not, leaves the data file, the
\* journal, the index, the buffer pool and next_page_id as they were, and
\* the insert, get, update or remove that follows returns the same value and
\* has the same effect on the data file as it has without the call.
C30_LinearSearchPureRead ==
    ~index.ub =>
        \A key \in Keys : \A stale \in StaleBuffers :
            With(engine_linear_search(Engine, key, stale).engine, LAMBDA after :
                /\ after.file = file
                /\ after.journal = journal
                /\ after.index = index
                /\ after.cache = cache
                /\ after.next_page_id = next_page_id
                /\ \A later \in Keys : SameLater(Engine, after, later))

=============================================================================
